---- MODULE Spec2Model ----
(***************************************************************************)
(* Footprint profiler of stf_tools (tools/stf_imem/stf_imem.hpp): the      *)
(* per-PC tables built by IMem / JavaIMem from a stream of instruction     *)
(* events, and the reports written by IMemMapVec::print.                   *)
(***************************************************************************)
EXTENDS Integers, Sequences, FiniteSets

\* ---------------------------------------------------------------- bounds
\* Number of events the reader yields at most from the trace "reload.stf".
MaxEvents == 4

\* Number of events the reader yields at most from the trace "gaps.stf".
MaxGapEvents == 5

\* uint64_t is modelled as an unsigned word of AddrBits bits.
AddrBits == 14

\* Number of pushes applied to one IMemData in the history-ring specification.
MaxPush == 55

\* ----------------------------------------------------- program constants
MAX_LHIST_ == 50

Word == 2 ^ AddrBits

\* std::numeric_limits<uint64_t>::max()
U64Max == Word - 1

\* static_cast<int64_t>(x) of an unsigned word x
ToSigned(x) == IF x >= Word \div 2 THEN x - Word ELSE x

\* ------------------------------------------------------------ the inputs
\* What the decoder says of each opcode that occurs in the traces:
\* addi (0x13), lw (0x2003), beq (0x63), c.sw (0xc000, 16 bit).
Decoded ==
  [ x \in {19, 8195, 99, 49152} |->
      [ isOpcode16 |-> (x = 49152),
        isLoad     |-> (x = 8195),
        isStore    |-> (x = 49152),
        isBranch   |-> (x = 99) ] ]

Opcodes == DOMAIN Decoded

\* The traces read.  "reload.stf" runs code at 0x100 that is reloaded during
\* the run, so that several opcodes occur there, followed by a branch;
\* "gaps.stf" runs 4-byte instructions in three separate regions.
TraceFiles == { "reload.stf", "gaps.stf" }

\* The program image of each trace: the opcodes fetched at each PC.
CodeAt ==
  [ f \in TraceFiles |->
      IF f = "reload.stf"
        THEN [ p \in {256, 258, 260} |->
                 CASE p = 256 -> {8195, 19, 49152}
                   [] p = 258 -> {19, 49152}
                   [] p = 260 -> {99} ]
        ELSE [ p \in {256, 260, 512, 516, 768} |-> {19} ] ]

\* The memory-access lists of a load event and of a store event (addresses,
\* in order).
MemLists ==
  [ isLoad |-> { <<>>, <<0>>, <<8, 24>> }, isStore |-> { <<24, 8>> } ]

\* hardware-thread id, process id, thread id of an event
ThreadIds == { <<1, 1, 1>>, <<2, 1, 1>>, <<1, 2, 1>>, <<1, 1, 2>> }

\* stf::STFInst as seen through the accessors the profiler calls
MkInst(p, op, mem, taken, ids, fault, valid) ==
  [ pc            |-> p,
    opcode        |-> op,
    isOpcode16    |-> Decoded[op].isOpcode16,
    isLoad        |-> Decoded[op].isLoad,
    isStore       |-> Decoded[op].isStore,
    isTakenBranch |-> taken,
    reads         |-> IF Decoded[op].isLoad THEN mem ELSE <<>>,
    writes        |-> IF Decoded[op].isStore THEN mem ELSE <<>>,
    hwtid         |-> ids[1],
    pid           |-> ids[2],
    tid           |-> ids[3],
    isFault       |-> fault,
    valid         |-> valid ]

\* The events of trace f that are valid, not faults, and of thread 1/1/1.
PlainInsts(f) ==
  UNION { UNION { { MkInst(p, op, mem, taken, <<1, 1, 1>>, FALSE, TRUE) :
                      mem \in (IF Decoded[op].isLoad THEN MemLists.isLoad
                               ELSE IF Decoded[op].isStore THEN MemLists.isStore
                               ELSE { <<>> }),
                      taken \in (IF Decoded[op].isBranch THEN BOOLEAN ELSE { FALSE }) } :
                  op \in CodeAt[f][p] } : p \in DOMAIN CodeAt[f] }

\* One event as another thread issues it, as a fault, and with the validity
\* flag cleared.
OtherInsts ==
  LET i == MkInst(256, 19, <<>>, FALSE, <<1, 1, 1>>, FALSE, TRUE)
  IN  { [ i EXCEPT !.hwtid = ids[1], !.pid = ids[2], !.tid = ids[3] ] :
          ids \in ThreadIds }
      \cup { [ i EXCEPT !.isFault = TRUE ], [ i EXCEPT !.valid = FALSE ] }

\* The events the reader can yield from trace f, and how many at most.
Insts ==
  [ f \in TraceFiles |->
      IF f = "reload.stf" THEN PlainInsts(f) \cup OtherInsts ELSE PlainInsts(f) ]

TraceLen ==
  [ f \in TraceFiles |-> IF f = "reload.stf" THEN MaxEvents ELSE MaxGapEvents ]

\* STFImemConfig: the fields processTrace reads.  Each thread filter comes
\* with one setting of the three instruction budgets.
Limits ==
  { [ g |-> <<0, 0, 0>>, keep_count |-> U64Max, warmup_count |-> 0,
      runlength_count |-> U64Max ],
    [ g |-> <<1, 0, 0>>, keep_count |-> U64Max, warmup_count |-> 2,
      runlength_count |-> 3 ],
    [ g |-> <<0, 1, 0>>, keep_count |-> 3, warmup_count |-> 1,
      runlength_count |-> U64Max ],
    [ g |-> <<0, 0, 1>>, keep_count |-> 0, warmup_count |-> 0,
      runlength_count |-> U64Max ] }

\* The budgets and filters tried on trace f.
LimitsOf(f) ==
  IF f = "reload.stf" THEN Limits ELSE { l \in Limits : l.g = <<0, 0, 0>> }

Configs ==
  UNION { { [ trace_filename  |-> f,
              java_trace      |-> j,
              g_hw_tid        |-> c.g[1],
              g_pid           |-> c.g[2],
              g_tid           |-> c.g[3],
              keep_count      |-> c.keep_count,
              warmup_count    |-> c.warmup_count,
              runlength_count |-> c.runlength_count ] :
              j \in BOOLEAN, c \in LimitsOf(f) } : f \in TraceFiles }

\* ----------------------------------------------------------------- state
VARIABLES
  config,           \* the STFImemConfig of the run
  imem_mapvec_,     \* std::vector<IMemMap>: sequence of maps PC -> IMemData
  itv_,             \* iterator into imem_mapvec_, as a 1-based index
  inst_count_,      \* instruction count
  max_count_,       \* maximum single instruction count
  max_warmup_,      \* maximum single instruction warmup
  max_run_length_,  \* maximum single instruction run length
  cerr,             \* diagnostics written to std::cerr, counted by kind
  pc,               \* position of the tool: "process", "done", "printed"
  consumed,         \* events the reader iterator has yielded so far
  calls,            \* count_impl calls made so far
  path,             \* what the last loop iteration did
  mismatches,       \* admitted events that met another opcode at their PC
  table_birth,      \* for each table of imem_mapvec_, its rank of creation
  print_config,     \* the STFImemConfig fields only print reads
  os,               \* lines of the address-ordered report
  sorted_map,       \* the multimap of blocks print builds
  sorted_os,        \* lines of the frequency-ranked report
  assert_failed,    \* TRUE once the stf_assert closing print has thrown
  lhist,            \* one IMemData whose history rings are exercised alone
  dump,             \* the run of stf_dump: its STFDumpConfig range and progress
  morph             \* the runs of stf_morph: command line, trace, STFMorpher

vars == << config, imem_mapvec_, itv_, inst_count_, max_count_, max_warmup_,
           max_run_length_, cerr, pc, consumed, calls, path, mismatches,
           table_birth, print_config, os, sorted_map, sorted_os, assert_failed,
           lhist, dump, morph >>

\* The tools other than the profiler.
tools == << dump, morph >>

profiler == << imem_mapvec_, itv_, inst_count_, max_count_, max_warmup_,
               max_run_length_, consumed, calls, path, mismatches, table_birth >>

report == << print_config, os, sorted_map, sorted_os, assert_failed >>


\* -------------------------------------------------------------- IMemData
\* nextStride with the cursor wrapping one slot too late; C6 must reject it.
nextStride_late_wrap(d, curr_addr) ==
  [ d EXCEPT
      !.recent_strides_[d.recent_strides_idx_ + 1] =
          ToSigned((curr_addr - d.last_address_) % Word),
      !.recent_strides_idx_ =
          IF d.recent_strides_idx_ = MAX_LHIST_ THEN 0
          ELSE d.recent_strides_idx_ + 1,
      !.last_address_ = curr_addr ]

\* IMemData::nextStride
nextStride(d, curr_addr) ==
  [ d EXCEPT
      !.recent_strides_[d.recent_strides_idx_ + 1] =
          ToSigned((curr_addr - d.last_address_) % Word),
      !.recent_strides_idx_ =
          IF d.recent_strides_idx_ = MAX_LHIST_ - 1 THEN 0
          ELSE d.recent_strides_idx_ + 1,
      !.last_address_ = curr_addr ]

\* IMemData::nextBranchHistory
nextBranchHistory(d, taken) ==
  [ d EXCEPT
      !.is_branch_ = TRUE,
      !.branch_lhr_[d.branch_lhr_idx_ + 1] = taken,
      !.branch_lhr_idx_ =
          IF d.branch_lhr_idx_ + 1 = MAX_LHIST_ THEN 0
          ELSE d.branch_lhr_idx_ + 1 ]

\* IMemData::IMemData (the seven-argument constructor the others delegate to)
IMemData(is_16bit, opcode, phys_pc, in_warmup, is_branch, br_taken, mem_addr) ==
  LET d == [ is_16bit_           |-> is_16bit,
             opcode_             |-> opcode,
             phys_pc_            |-> phys_pc,
             warmup_             |-> IF in_warmup THEN 1 ELSE 0,
             runlength_          |-> IF in_warmup THEN 0 ELSE 1,
             count_              |-> 1,
             is_loadstore_       |-> (mem_addr # 0),
             last_address_       |-> mem_addr,
             recent_strides_     |-> [ i \in 1..MAX_LHIST_ |-> 0 ],
             recent_strides_idx_ |-> 0,
             is_branch_          |-> is_branch,
             branch_lhr_         |-> [ i \in 1..MAX_LHIST_ |-> FALSE ],
             branch_lhr_idx_     |-> 0 ]
  IN  IF is_branch THEN nextBranchHistory(d, br_taken) ELSE d

\* IMemData::opcodeMatch
opcodeMatch(d, opcode) == d.opcode_ = opcode

\* IMemData::getOpcodeSize
getOpcodeSize(d) == IF d.is_16bit_ THEN 2 ELSE 4

\* ------------------------------------------------------------ IMemMapVec
\* std::map::insert: an existing key is kept as it is.
MapInsert(m, key, d) ==
  IF key \in DOMAIN m THEN m
  ELSE [ k \in DOMAIN m \cup {key} |-> IF k = key THEN d ELSE m[k] ]

\* The empty IMemMap
EmptyMap == [ k \in {} |-> 0 ]

Max(a, b) == IF a >= b THEN a ELSE b

\* IMemMapVec::incCount_ on the entry of table t at key
incCount_(self, t, key) ==
  LET c == self.imem_mapvec_[t][key].count_ + 1
  IN  [ self EXCEPT !.imem_mapvec_[t][key].count_ = c,
                    !.max_count_ = Max(self.max_count_, c) ]

\* IMemMapVec::incWarmup_
incWarmup_(self, t, key) ==
  LET c == self.imem_mapvec_[t][key].warmup_ + 1
  IN  [ self EXCEPT !.imem_mapvec_[t][key].warmup_ = c,
                    !.max_warmup_ = Max(self.max_warmup_, c) ]

\* IMemMapVec::incRunLength_
incRunLength_(self, t, key) ==
  LET c == self.imem_mapvec_[t][key].runlength_ + 1
  IN  [ self EXCEPT !.imem_mapvec_[t][key].runlength_ = c,
                    !.max_run_length_ = Max(self.max_run_length_, c) ]

\* IMemMapVec::nextStride_
nextStride_(self, t, key, curr_addr) ==
  [ self EXCEPT !.imem_mapvec_[t][key] = nextStride(@, curr_addr) ]

\* IMemMapVec::nextBranchHistory_
nextBranchHistory_(self, t, key, taken) ==
  [ self EXCEPT !.imem_mapvec_[t][key] = nextBranchHistory(@, taken) ]

\* MatchUpdate without the else between the two windows; C3 must reject it.
MatchUpdate_both(self, cfg, t, key) ==
  LET in_warmup == self.inst_count_ < cfg.warmup_count
      s1 == incCount_(self, t, key)
      s2 == IF in_warmup THEN incWarmup_(s1, t, key) ELSE s1
  IN  IF self.inst_count_ < cfg.runlength_count THEN incRunLength_(s2, t, key)
      ELSE s2

\* The count / warm-up / run-length update both variants make on a match.
MatchUpdate(self, cfg, t, key) ==
  LET in_warmup == self.inst_count_ < cfg.warmup_count
      s1 == incCount_(self, t, key)
  IN  IF in_warmup THEN incWarmup_(s1, t, key)
      ELSE IF self.inst_count_ < cfg.runlength_count THEN incRunLength_(s1, t, key)
      ELSE s1

\* The address left in addr by the loops over the memory accesses.
LoopAddress(accesses) ==
  IF accesses = <<>> THEN 0 ELSE accesses[Len(accesses)]

\* ------------------------------------------------------------------ IMem
\* The address IMem::count_impl holds in addr after its loops.
IMem_addr(inst) ==
  IF inst.isLoad THEN LoopAddress(inst.reads)
  ELSE IF inst.isStore THEN LoopAddress(inst.writes)
  ELSE 0

\* IMem::count_impl, "Key not found"
IMem_create(self, cfg, inst) ==
  LET in_warmup == self.inst_count_ < cfg.warmup_count
      is_load_store_inst == inst.isLoad \/ inst.isStore
      is_branch == inst.isTakenBranch
      br_taken == inst.isTakenBranch
      d == IF is_load_store_inst
             THEN IMemData(inst.isOpcode16, inst.opcode, 0, in_warmup,
                           FALSE, FALSE, IMem_addr(inst))
             ELSE IF is_branch
               THEN IMemData(inst.isOpcode16, inst.opcode, 0, in_warmup,
                             is_branch, br_taken, 0)
               ELSE IMemData(inst.isOpcode16, inst.opcode, 0, in_warmup,
                             FALSE, FALSE, 0)
  IN  [ self EXCEPT !.imem_mapvec_[self.itv_] = MapInsert(@, inst.pc, d),
                    !.path = "create" ]

\* IMem::count_impl, "Key and opcode found"
IMem_match(self, cfg, inst) ==
  LET t == self.itv_
      key == inst.pc
      is_load_store_inst == inst.isLoad \/ inst.isStore
      is_branch == inst.isTakenBranch
      br_taken == inst.isTakenBranch
      s1 == MatchUpdate(self, cfg, t, key)
      s2 == IF is_load_store_inst THEN nextStride_(s1, t, key, IMem_addr(inst))
            ELSE IF is_branch THEN nextBranchHistory_(s1, t, key, br_taken)
            ELSE s1
  IN  [ s2 EXCEPT !.path = "match" ]

\* The mismatch branch counting the event on the entry it found; C4 must
\* reject it.
IMem_mismatch_counting(self, cfg, inst) ==
  [ incCount_(self, self.itv_, inst.pc) EXCEPT !.warn = @ + 1, !.path = "mismatch" ]

\* The mismatch branch without its warning; C5 must reject it.
IMem_mismatch_silent(self, cfg, inst) ==
  [ self EXCEPT !.path = "mismatch" ]

\* IMem::count_impl, "different opcode": the warning on std::cerr
IMem_mismatch(self, cfg, inst) ==
  [ self EXCEPT !.warn = @ + 1, !.path = "mismatch" ]

\* IMem::count_impl
IMem_count_impl(self, cfg, inst) ==
  LET key == inst.pc
      cur == self.imem_mapvec_[self.itv_]
  IN  IF key \notin DOMAIN cur THEN IMem_create(self, cfg, inst)
      ELSE IF opcodeMatch(cur[key], inst.opcode) THEN IMem_match(self, cfg, inst)
      ELSE IMem_mismatch(self, cfg, inst)

\* -------------------------------------------------------------- JavaIMem
\* The search that looks for tables without key only and never reports a
\* table holding key with the opcode; C24 must reject it.
JavaSearch_no_match(mapvec, key, opcode, it, itt) ==
  LET without == { t \in it..Len(mapvec) : key \notin DOMAIN mapvec[t] }
  IN  [ found |-> FALSE,
        it    |-> Len(mapvec) + 1,
        itt   |-> IF without = {} THEN itt
                  ELSE CHOOSE t \in without : \A u \in without : u <= t ]

\* The while loop of JavaIMem::count_impl from table it on: the table that
\* holds key with the opcode (found), and the last table seen without key
\* (itt, 0 standing for imem_mapvec_.end()).
RECURSIVE JavaSearch(_, _, _, _, _)
JavaSearch(mapvec, key, opcode, it, itt) ==
  IF it > Len(mapvec) THEN [ found |-> FALSE, it |-> it, itt |-> itt ]
  ELSE IF key \in DOMAIN mapvec[it]
    THEN IF opcodeMatch(mapvec[it][key], opcode)
           THEN [ found |-> TRUE, it |-> it, itt |-> itt ]
           ELSE JavaSearch(mapvec, key, opcode, it + 1, itt)
    ELSE JavaSearch(mapvec, key, opcode, it + 1, it)

\* JavaIMem_insert with the new table put behind the others; C25 must
\* reject it.
JavaIMem_insert_at_back(self, cfg, inst, itt) ==
  LET key == inst.pc
      in_warmup == self.inst_count_ < cfg.warmup_count
      d == IMemData(inst.isOpcode16, inst.opcode, 0, in_warmup, FALSE, FALSE, 0)
  IN  IF itt = 0
        THEN [ self EXCEPT
                 !.imem_mapvec_ = @ \o << MapInsert(EmptyMap, key, d) >>,
                 !.itv_ = Len(self.imem_mapvec_) + 1,
                 !.path = "create" ]
      ELSE
        LET t == IF key \in DOMAIN self.imem_mapvec_[self.itv_]
                   THEN itt ELSE self.itv_
        IN  [ self EXCEPT !.imem_mapvec_[t] = MapInsert(@, key, d),
                          !.itv_ = t,
                          !.path = "create" ]

\* JavaIMem_insert without the move to itt: the insert goes to the active
\* table even when that holds the key; C29 must reject it.
JavaIMem_insert_into_active(self, cfg, inst, itt) ==
  LET key == inst.pc
      in_warmup == self.inst_count_ < cfg.warmup_count
      d == IMemData(inst.isOpcode16, inst.opcode, 0, in_warmup, FALSE, FALSE, 0)
  IN  IF itt = 0
        THEN [ self EXCEPT
                 !.imem_mapvec_ = << MapInsert(EmptyMap, key, d) >> \o @,
                 !.itv_ = 1,
                 !.path = "create" ]
      ELSE [ self EXCEPT !.imem_mapvec_[self.itv_] = MapInsert(@, key, d),
                         !.path = "create" ]

\* JavaIMem::count_impl, the branch taken when no table holds key with the
\* opcode: the table chosen and the insert.
JavaIMem_insert(self, cfg, inst, itt) ==
  LET key == inst.pc
      in_warmup == self.inst_count_ < cfg.warmup_count
      d == IMemData(inst.isOpcode16, inst.opcode, 0, in_warmup, FALSE, FALSE, 0)
  IN  IF itt = 0
        THEN \* all maps contain the key but different opcodes, create a new map
          [ self EXCEPT
              !.imem_mapvec_ = << MapInsert(EmptyMap, key, d) >> \o @,
              !.itv_ = 1,
              !.path = "create" ]
      ELSE
        LET t == IF key \in DOMAIN self.imem_mapvec_[self.itv_]
                   THEN itt ELSE self.itv_
        IN  [ self EXCEPT !.imem_mapvec_[t] = MapInsert(@, key, d),
                          !.itv_ = t,
                          !.path = "create" ]

\* JavaIMem::count_impl with the search started at the active table instead
\* of the first one; C28 must reject it.
JavaIMem_count_impl_from_active(self, cfg, inst) ==
  LET key == inst.pc
  IN  IF /\ key \in DOMAIN self.imem_mapvec_[self.itv_]
         /\ opcodeMatch(self.imem_mapvec_[self.itv_][key], inst.opcode)
        THEN [ MatchUpdate(self, cfg, self.itv_, key) EXCEPT !.path = "match" ]
      ELSE
        LET r == JavaSearch(self.imem_mapvec_, key, inst.opcode, self.itv_, 0)
        IN  IF r.found
              THEN [ MatchUpdate(self, cfg, r.it, key) EXCEPT
                       !.itv_ = r.it, !.path = "match" ]
            ELSE JavaIMem_insert(self, cfg, inst, r.itt)

\* JavaIMem::count_impl
JavaIMem_count_impl(self, cfg, inst) ==
  LET key == inst.pc
  IN  IF /\ key \in DOMAIN self.imem_mapvec_[self.itv_]
         /\ opcodeMatch(self.imem_mapvec_[self.itv_][key], inst.opcode)
        THEN [ MatchUpdate(self, cfg, self.itv_, key) EXCEPT !.path = "match" ]
      ELSE
        LET r == JavaSearch(self.imem_mapvec_, key, inst.opcode, 1, 0)
        IN  IF r.found
              THEN [ MatchUpdate(self, cfg, r.it, key) EXCEPT
                       !.itv_ = r.it, !.path = "match" ]
            ELSE JavaIMem_insert(self, cfg, inst, r.itt)

\* -------------------------------------------------------- IMemMapVecIntf
\* The filters without the fault test; C8 must reject it.
Admitted_faults_too(cfg, inst) ==
  /\ ~ (cfg.g_hw_tid # 0 /\ cfg.g_hw_tid # inst.hwtid)
  /\ ~ (cfg.g_pid # 0 /\ cfg.g_pid # inst.pid)
  /\ ~ (cfg.g_tid # 0 /\ cfg.g_tid # inst.tid)

\* The thread filters and the fault test of processTrace_: TRUE when the
\* loop body reaches count_impl.
Admitted(cfg, inst) ==
  /\ ~ (cfg.g_hw_tid # 0 /\ cfg.g_hw_tid # inst.hwtid)
  /\ ~ (cfg.g_pid # 0 /\ cfg.g_pid # inst.pid)
  /\ ~ (cfg.g_tid # 0 /\ cfg.g_tid # inst.tid)
  /\ ~ inst.isFault

\* static_cast<ImplType*>(this)->count_impl(config, inst)
count_impl(self, cfg, inst) ==
  IF cfg.java_trace THEN JavaIMem_count_impl(self, cfg, inst)
  ELSE IMem_count_impl(self, cfg, inst)

\* The cap test missing the count that equals keep_count; C7 must reject it.
ReachedCap_above(inst_count, keep_count) == inst_count > keep_count

\* The test that leaves the loop of processTrace_.
ReachedCap(inst_count, keep_count) == inst_count >= keep_count

\* The loop body leaving an invalid event after its diagnostic, as if the
\* test of inst.valid() ended with continue; C18 must reject it.
LoopBody_drops_invalid(self, cfg, inst) ==
  IF ~ inst.valid THEN [ self EXCEPT !.error = @ + 1, !.path = "discard" ]
  ELSE IF ~ Admitted(cfg, inst) THEN [ self EXCEPT !.path = "discard" ]
  ELSE
    LET s1 == count_impl(self, cfg, inst)
        s2 == [ s1 EXCEPT !.inst_count_ = @ + 1, !.calls = @ + 1 ]
    IN  [ s2 EXCEPT !.brk = ReachedCap(s2.inst_count_, cfg.keep_count) ]

\* One iteration of the for loop of processTrace_ on the event inst; brk
\* tells whether the iteration left the loop.
LoopBody(self, cfg, inst) ==
  LET s0 == IF ~ inst.valid THEN [ self EXCEPT !.error = @ + 1 ] ELSE self
  IN  IF ~ Admitted(cfg, inst)
        THEN [ s0 EXCEPT !.path = "discard" ]
      ELSE
        LET s1 == count_impl(s0, cfg, inst)
            s2 == [ s1 EXCEPT !.inst_count_ = @ + 1, !.calls = @ + 1 ]
        IN  [ s2 EXCEPT !.brk = ReachedCap(s2.inst_count_, cfg.keep_count) ]

\* The fields of the profiler object and of the run, as one record.
Self ==
  [ imem_mapvec_    |-> imem_mapvec_,
    itv_            |-> itv_,
    inst_count_     |-> inst_count_,
    max_count_      |-> max_count_,
    max_warmup_     |-> max_warmup_,
    max_run_length_ |-> max_run_length_,
    warn            |-> cerr.warn,
    error           |-> cerr.error,
    empty           |-> cerr.empty,
    calls           |-> calls,
    path            |-> path,
    brk             |-> FALSE ]

\* ----------------------------------------------------- IMemMapVec::print
\* The fields of STFImemConfig that shape the reports: sort_output, and
\* whether output_filename names the standard output (os.isStdout()), which
\* print reads only when sort_output is set.
PrintConfigs ==
  { c \in [ sort_output : BOOLEAN, is_stdout : BOOLEAN ] :
      c.is_stdout => c.sort_output }

\* The keys of an IMemMap in iteration order (ascending).
RECURSIVE MapKeys(_)
MapKeys(keys) ==
  IF keys = {} THEN <<>>
  ELSE LET k == CHOOSE x \in keys : \A y \in keys : x <= y
       IN  << k >> \o MapKeys(keys \ {k})

\* The tables visited from begin to end; C9 must reject it.
TableOrder_forward(mapvec) == [ i \in 1..Len(mapvec) |-> i ]

\* The order in which the outer loop of print visits imem_mapvec_
\* (rbegin to rend), as indices into the vector.
TableOrder(mapvec) == [ i \in 1..Len(mapvec) |-> Len(mapvec) - i + 1 ]

\* The order with ties ranked by ascending PC, so that the reverse walk
\* meets the higher PC first; C11 must reject it.
SortedMapKey_less_pc(lhs, rhs) ==
  (lhs.count_ < rhs.count_) \/ ((lhs.count_ = rhs.count_) /\ (lhs.pc_ < rhs.pc_))

\* SortedMapKey::operator<
SortedMapKey_less(lhs, rhs) ==
  (lhs.count_ < rhs.count_) \/ ((lhs.count_ = rhs.count_) /\ (lhs.pc_ > rhs.pc_))

\* std::multimap::emplace: the new element goes after every element whose
\* key is not greater than its key.
Emplace(smap, key, block) ==
  LET n == Cardinality({ i \in 1..Len(smap) : ~ SortedMapKey_less(key, smap[i].key) })
  IN  SubSeq(smap, 1, n) \o << [ key |-> key, block |-> block ] >>
        \o SubSeq(smap, n + 1, Len(smap))

\* The emplace keyed by the last instruction of the block instead of the
\* first; C26 must reject it.
EmplaceBlock_last_pc(L) ==
  Emplace(L.sorted_map,
          [ count_ |-> L.block_count,
            pc_    |-> L.current_block[Len(L.current_block)].pc ],
          L.current_block)

\* sorted_map.emplace(block_count, current_block.front()->first, current_block)
EmplaceBlock(L) ==
  Emplace(L.sorted_map,
          [ count_ |-> L.block_count, pc_ |-> L.current_block[1].pc ],
          L.current_block)

\* The contiguity test taking every instruction for a 4-byte one; C10 must
\* reject it.
NewRegion_always4(L, inst_pc) ==
  L.first \/ ((L.prev_pc + 4) % Word # inst_pc)

\* The test that opens a new block / prints a gap marker before an entry.
NewRegion(L, inst_pc) ==
  L.first \/ ((L.prev_pc + L.prev_size) % Word # inst_pc)

\* The body of the inner loop of print for the entry of table t at inst_pc.
PrintEntry(L, pcfg, mapvec, t, inst_pc) ==
  LET d == mapvec[t][inst_pc]
      L1 == IF NewRegion(L, inst_pc)
              THEN IF L.first THEN [ L EXCEPT !.first = FALSE ]
                   ELSE
                     LET a == IF ~ pcfg.sort_output
                                THEN [ L EXCEPT !.os = Append(@, [ kind |-> "gap" ]) ]
                                ELSE L
                     IN  IF pcfg.sort_output
                           THEN [ a EXCEPT !.sorted_map = EmplaceBlock(L),
                                           !.current_block = <<>>,
                                           !.block_count = 0 ]
                           ELSE a
              ELSE L
      L2 == IF pcfg.sort_output
              THEN [ L1 EXCEPT !.block_count = @ + d.count_,
                               !.current_block = Append(@, [ t |-> t, pc |-> inst_pc ]) ]
              ELSE L1
      L3 == IF ~ pcfg.is_stdout \/ ~ pcfg.sort_output
              THEN [ L2 EXCEPT !.os = Append(@, [ kind   |-> "inst",
                                                  table  |-> t,
                                                  pc     |-> inst_pc,
                                                  opcode |-> d.opcode_,
                                                  count  |-> d.count_ ]) ]
              ELSE L2
  IN  [ L3 EXCEPT !.prev_pc = inst_pc, !.prev_size = getOpcodeSize(d) ]

\* The inner loop of print over the entries keys[i..] of table t.
RECURSIVE PrintTable(_, _, _, _, _, _)
PrintTable(L, pcfg, mapvec, t, keys, i) ==
  IF i > Len(keys) THEN L
  ELSE PrintTable(PrintEntry(L, pcfg, mapvec, t, keys[i]), pcfg, mapvec, t, keys, i + 1)

\* The outer loop of print over the tables order[i..].
RECURSIVE PrintTables(_, _, _, _, _)
PrintTables(L, pcfg, mapvec, order, i) ==
  IF i > Len(order) THEN L
  ELSE
    LET t == order[i]
        L1 == [ L EXCEPT !.os = Append(@, [ kind    |-> "map",
                                            map_num |-> L.map_num,
                                            table   |-> t ]) ]
        L2 == PrintTable(L1, pcfg, mapvec, t, MapKeys(DOMAIN mapvec[t]), 1)
    IN  PrintTables([ L2 EXCEPT !.map_num = @ + 1 ], pcfg, mapvec, order, i + 1)

\* The address-ordered part of print, up to the emplace of the last block.
PrintLinear(self, pcfg) ==
  LET L0 == [ first         |-> TRUE,
              prev_pc       |-> 0,
              prev_size     |-> 0,
              map_num       |-> 1,
              block_count   |-> 0,
              current_block |-> <<>>,
              sorted_map    |-> <<>>,
              os            |-> <<>> ]
      L1 == PrintTables(L0, pcfg, self.imem_mapvec_, TableOrder(self.imem_mapvec_), 1)
  IN  IF pcfg.sort_output /\ L1.current_block # <<>>
        THEN [ L1 EXCEPT !.sorted_map = EmplaceBlock(L1) ]
        ELSE L1

\* The lines of one block of the frequency-ranked report, entries block[i..].
RECURSIVE PrintBlock(_, _, _, _)
PrintBlock(S, mapvec, block, i) ==
  IF i > Len(block) THEN S
  ELSE
    LET d == mapvec[block[i].t][block[i].pc]
        c == S.cumulative_count + d.count_
    IN  PrintBlock([ S EXCEPT !.cumulative_count = c,
                              !.sorted_os = Append(@, [ kind       |-> "inst",
                                                        table      |-> block[i].t,
                                                        pc         |-> block[i].pc,
                                                        opcode     |-> d.opcode_,
                                                        count      |-> d.count_,
                                                        cumulative |-> c ]) ],
                   mapvec, block, i + 1)

\* The loop of print over sorted_map from rbegin, at position i counted
\* from the end.
RECURSIVE PrintSorted(_, _, _, _)
PrintSorted(S, mapvec, smap, i) ==
  IF i < 1 THEN S
  ELSE
    LET S1 == [ S EXCEPT !.sorted_os = Append(@, [ kind  |-> "block",
                                                   count |-> smap[i].key.count_,
                                                   pc    |-> smap[i].key.pc_,
                                                   addrs |-> Len(smap[i].block) ]) ]
    IN  PrintSorted(PrintBlock(S1, mapvec, smap[i].block, 1), mapvec, smap, i - 1)

\* print without the return on an empty sorted_map: the totals are written
\* and the closing assertion is evaluated; C12 must reject it.
print_no_return(self, pcfg) ==
  LET L == PrintLinear(self, pcfg)
      S0 == [ cumulative_count |-> 0,
              sorted_os |-> << [ kind       |-> "totals",
                                 inst_count |-> self.inst_count_,
                                 max_count  |-> self.max_count_ ] >> ]
      S == PrintSorted(S0, self.imem_mapvec_, L.sorted_map, Len(L.sorted_map))
  IN  IF ~ pcfg.sort_output
        THEN [ os |-> L.os, sorted_map |-> L.sorted_map, sorted_os |-> <<>>,
               empty |-> self.empty, assert_failed |-> FALSE ]
      ELSE [ os |-> L.os, sorted_map |-> L.sorted_map, sorted_os |-> S.sorted_os,
             empty |-> self.empty,
             assert_failed |-> (S.cumulative_count # self.inst_count_) ]

\* IMemMapVec::print
print(self, pcfg) ==
  LET L == PrintLinear(self, pcfg)
      S0 == [ cumulative_count |-> 0,
              sorted_os |-> << [ kind       |-> "totals",
                                 inst_count |-> self.inst_count_,
                                 max_count  |-> self.max_count_ ] >> ]
      S == PrintSorted(S0, self.imem_mapvec_, L.sorted_map, Len(L.sorted_map))
  IN  IF ~ pcfg.sort_output
        THEN [ os |-> L.os, sorted_map |-> L.sorted_map, sorted_os |-> <<>>,
               empty |-> self.empty, assert_failed |-> FALSE ]
      ELSE IF L.sorted_map = <<>>
        THEN [ os |-> L.os, sorted_map |-> L.sorted_map, sorted_os |-> <<>>,
               empty |-> self.empty + 1, assert_failed |-> FALSE ]
      ELSE [ os |-> L.os, sorted_map |-> L.sorted_map, sorted_os |-> S.sorted_os,
             empty |-> self.empty,
             assert_failed |-> (S.cumulative_count # self.inst_count_) ]

\* ------------------------------------------------------------- stf_dump
\* The largest -s and -e values tried, and the longest trace dumped.
MaxDumpInst == 4
MaxDumpLen == 4

\* The state of stf_dump when another tool runs.
NoDump ==
  [ start_inst |-> 0, end_inst |-> 0, stage |-> "off", opened |-> FALSE,
    len |-> 0, next |-> 1, dumped |-> <<>> ]

\* The condition of the stf_assert closing parseCommandLine taken for
\* end_inst >= start_inst alone; C17 must reject it.
RangeAccepted_no_zero(cfg) == cfg.end_inst >= cfg.start_inst

\* The condition of the stf_assert closing parseCommandLine.
RangeAccepted(cfg) == (cfg.end_inst = 0) \/ (cfg.end_inst >= cfg.start_inst)

\* parseCommandLine: the stage main goes to, the call of processTrace_ when
\* the configuration is returned, none when stf_assert throws.
parseCommandLine(cfg) == IF RangeAccepted(cfg) THEN "open" ELSE "aborted"

\* The number of instructions processTrace_ of stf_dump skips.
DumpSkip(cfg) == IF cfg.start_inst # 0 THEN cfg.start_inst - 1 ELSE 0

\* The test that leaves the loop of processTrace_ of stf_dump after the
\* instruction of the given index was dumped.
DumpBreak(cfg, index) == cfg.end_inst # 0 /\ index >= cfg.end_inst

\* ------------------------------------------------------------- STFMorpher
\* enum class MorphType
STFID == 0
PC == 1
NUM_TYPES == 2

MorphTypes == 0..(NUM_TYPES - 1)

\* The longest trace the morpher reads.
MaxMorphEvents == 3

\* The registers the traces of the morpher name.
Regs == { 1, 2 }

\* The program the morpher's input trace ran: addi at 0x10, lw at 0x14, each
\* with the register-state, source-operand and destination-operand records
\* its events carry.
MorphCode ==
  [ p \in { 16, 20 } |->
      IF p = 16
        THEN [ opcode    |-> 19,
               regstates |-> <<>>,
               sources   |-> << [ reg |-> 1, val |-> 5 ] >>,
               dests     |-> << [ reg |-> 2, val |-> 6 ] >> ]
        ELSE [ opcode    |-> 8195,
               regstates |-> << [ reg |-> 1, val |-> 3 ] >>,
               sources   |-> << [ reg |-> 1, val |-> 4 ] >>,
               dests     |-> << [ reg |-> 1, val |-> 7 ] >> ] ]

\* The input traces, as the PCs of their instructions in order.
MorphTraces == UNION { [ 1..n -> DOMAIN MorphCode ] : n \in 0..MaxMorphEvents }

\* The instruction the reader yields at position i of trace; index() counts
\* from 1.
MorphInst(trace, i) ==
  LET c == MorphCode[trace[i]]
  IN  [ index |-> i, pc |-> trace[i], opcode |-> c.opcode,
        regstates |-> c.regstates, sources |-> c.sources, dests |-> c.dests ]

\* One replacement of a morph argument: opcode, or opcode@addr:size+stride.
PlainOp(opcode) ==
  [ opcode |-> opcode, has_addr |-> FALSE, addr |-> 0, size |-> 0, stride |-> 0 ]

LsOp(opcode, addr, size, stride) ==
  [ opcode |-> opcode, has_addr |-> TRUE, addr |-> addr, size |-> size,
    stride |-> stride ]

\* The -i and -a arguments tried.  An identifier is the string of its digits:
\* "2" and "10" below; "10" after -a is PC 0x10.
MorphArgs ==
  { [ i |-> << [ id_str |-> << 2 >>,
                 ops |-> << LsOp(19, 8192, 4, 4), PlainOp(19) >> ] >>,
      a |-> << [ id_str |-> << 1, 0 >>,
                 ops |-> << LsOp(8195, U64Max - 3, 8, 4) >> ] >> ],
    [ i |-> <<>>,
      a |-> << [ id_str |-> << 1, 0 >>,
                 ops |-> << LsOp(19, 8192, 4, 4), PlainOp(19) >> ],
               [ id_str |-> << 1, 4 >>,
                 ops |-> << PlainOp(49152) >> ] >> ],
    [ i |-> << [ id_str |-> << 1 >>, ops |-> << PlainOp(49152) >> ],
               [ id_str |-> << 3 >>, ops |-> << LsOp(49152, 8, 2, 2) >> ] >>,
      a |-> <<>> ] }

\* The command lines of stf_morph tried: flag C, the -i and -a arguments,
\* and the start and end instruction given to the constructor.
MorphParsers ==
  { [ C |-> c, i |-> m.i, a |-> m.a, start_inst |-> r[1], end_inst |-> r[2] ] :
      c \in BOOLEAN, m \in MorphArgs, r \in { << 0, 0 >>, << 2, 0 >>, << 0, 2 >> } }

\* STFMorpher::OpcodeMorph::Op::Op with every stride taken for 0; C15 must
\* reject it.
Op_no_stride(opcode, operands, ls_address, ls_stride, ls_size, ls_access_type, op_size) ==
  [ opcode_ |-> opcode, operands_ |-> operands, ls_address_ |-> ls_address,
    ls_stride_ |-> 0, ls_size_ |-> ls_size,
    ls_access_type_ |-> ls_access_type, op_size_ |-> op_size ]

\* STFMorpher::OpcodeMorph::Op::Op
Op(opcode, operands, ls_address, ls_stride, ls_size, ls_access_type, op_size) ==
  [ opcode_ |-> opcode, operands_ |-> operands, ls_address_ |-> ls_address,
    ls_stride_ |-> ls_stride, ls_size_ |-> ls_size,
    ls_access_type_ |-> ls_access_type, op_size_ |-> op_size ]

\* An OpcodeMorph without ops.
NoOps == [ total_size_ |-> 0, opcodes_ |-> <<>> ]

\* STFMorpher::OpcodeMorph::addOp
addOp(m, opcode, operands, ls_address, ls_stride, ls_size, ls_access_type, op_size) ==
  [ total_size_ |-> m.total_size_ + op_size,
    opcodes_ |-> Append(m.opcodes_,
                        Op(opcode, operands, ls_address, ls_stride, ls_size,
                           ls_access_type, op_size)) ]

\* std::stoull(id_str, 0, base) on a string of digits of that base.
RECURSIVE stoull(_, _)
stoull(id_str, base) ==
  IF id_str = <<>> THEN 0
  ELSE (stoull(SubSeq(id_str, 1, Len(id_str) - 1), base) * base
          + id_str[Len(id_str)]) % Word

\* STFMorpher::convertMorphId_
convertMorphId_(morph_type, id_str) ==
  IF morph_type = STFID THEN stoull(id_str, 10) ELSE stoull(id_str, 16)

\* getMorphIndex_ reading the PC for both morph types; C13 must reject it.
getMorphIndex_pc(morph_type, inst) == inst.pc

\* STFMorpher::getMorphIndex_, on the instruction it_ points to.
getMorphIndex_(morph_type, inst) ==
  IF morph_type = STFID THEN inst.index ELSE inst.pc

\* STFRegState::regStateUpdate for the records recs[j..].
RECURSIVE regStateUpdate(_, _, _)
regStateUpdate(reg_state, recs, j) ==
  IF j > Len(recs) THEN reg_state
  ELSE regStateUpdate([ reg_state EXCEPT ![recs[j].reg] = recs[j].val ], recs, j + 1)

\* updateInitialRegState_ with the source operands applied before the
\* register-state records; C27 must reject it.
updateInitialRegState_sources_first(reg_state, inst) ==
  regStateUpdate(regStateUpdate(reg_state, inst.sources, 1), inst.regstates, 1)

\* STFMorpher::updateInitialRegState_
updateInitialRegState_(reg_state, inst) ==
  regStateUpdate(regStateUpdate(reg_state, inst.regstates, 1), inst.sources, 1)

\* STFMorpher::updateFinalRegState_
updateFinalRegState_(reg_state, inst) == regStateUpdate(reg_state, inst.dests, 1)

\* The access type of a replacement: none without @addr, otherwise what the
\* decoder says of the opcode.
AccessType(tok) ==
  IF ~ tok.has_addr THEN "INVALID"
  ELSE IF Decoded[tok.opcode].isStore THEN "WRITE" ELSE "READ"

\* The OpcodeMorph for the replacements ops[j..] of one argument.
RECURSIVE ParseOps(_, _, _)
ParseOps(m, ops, j) ==
  IF j > Len(ops) THEN m
  ELSE ParseOps(addOp(m, ops[j].opcode, <<>>, ops[j].addr, ops[j].stride,
                      ops[j].size, AccessType(ops[j]),
                      IF Decoded[ops[j].opcode].isOpcode16 THEN 2 ELSE 4),
                ops, j + 1)

\* The MorphMap of one morph type for the arguments args[j..].
RECURSIVE ParseArgs(_, _, _, _)
ParseArgs(map, morph_type, args, j) ==
  IF j > Len(args) THEN map
  ELSE
    LET id == convertMorphId_(morph_type, args[j].id_str)
        m == ParseOps(NoOps, args[j].ops, 1)
    IN  ParseArgs([ k \in DOMAIN map \cup { id } |-> IF k = id THEN m ELSE map[k] ],
                  morph_type, args, j + 1)

\* STFMorpher::processOpcodeMorphArguments_: the value of morphs_.
processOpcodeMorphArguments_(parser) ==
  [ t \in MorphTypes |->
      ParseArgs([ k \in {} |-> NoOps ], t,
                IF t = STFID THEN parser.i ELSE parser.a, 1) ]

\* parser.hasArgument('C') taken for true; C14 must reject it.
AllowCollisions_always(parser) == TRUE

\* parser.hasArgument('C')
AllowCollisions(parser) == parser.C

\* The constructor opening the output without truncating it; C16 must
\* reject it.
STFMorpher_appending(parser, trace, output, start_inst, end_inst) ==
  [ morphs_           |-> processOpcodeMorphArguments_(parser),
    reader_           |-> trace,
    writer_           |-> output,
    reg_state_        |-> [ r \in Regs |-> 0 ],
    it_               |-> IF start_inst > 1 THEN start_inst ELSE 1,
    allow_collisions_ |-> AllowCollisions(parser),
    end_inst_         |-> end_inst ]

\* STFMorpher::STFMorpher.  The writer starts an empty file whatever the
\* file named output held; it_ is the position of the first instruction
\* read, seekFromBeginning(n) skipping n instructions.
STFMorpher(parser, trace, output, start_inst, end_inst) ==
  [ morphs_           |-> processOpcodeMorphArguments_(parser),
    reader_           |-> trace,
    writer_           |-> <<>>,
    reg_state_        |-> [ r \in Regs |-> 0 ],
    it_               |-> IF start_inst > 1 THEN start_inst ELSE 1,
    allow_collisions_ |-> AllowCollisions(parser),
    end_inst_         |-> end_inst ]

\* STFMorpher::OpcodeMorph::Op::write: the event written and the op after
\* the write, its address advanced by its stride.
Op_write(op, reg_state) ==
  [ record |-> [ kind      |-> "morph",
                 opcode    |-> op.opcode_,
                 operands  |-> op.operands_,
                 mem       |-> IF op.ls_access_type_ = "INVALID" THEN <<>>
                               ELSE << [ address |-> op.ls_address_,
                                         size    |-> op.ls_size_,
                                         type    |-> op.ls_access_type_ ] >>,
                 reg_state |-> reg_state ],
    op     |-> [ op EXCEPT !.ls_address_ = (@ + op.ls_stride_) % Word ] ]

\* The loop of process over the ops opcodes[j..] of the matching morph.
RECURSIVE WriteOps(_, _, _, _)
WriteOps(opcodes, reg_state, writer, j) ==
  IF j > Len(opcodes) THEN [ opcodes_ |-> opcodes, writer_ |-> writer ]
  ELSE LET w == Op_write(opcodes[j], reg_state)
       IN  WriteOps([ opcodes EXCEPT ![j] = w.op ], reg_state,
                    Append(writer, w.record), j + 1)

\* The morph types whose map holds a morph for inst.
Matches(self, inst) ==
  { t \in MorphTypes : getMorphIndex_(t, inst) \in DOMAIN self.morphs_[t] }

\* The morph applied among those that match: STFID morphs take precedence.
MorphChoice(found) == IF STFID \in found THEN STFID ELSE PC

\* The instruction written unchanged.
PassThrough(inst) ==
  [ kind |-> "orig", index |-> inst.index, pc |-> inst.pc, opcode |-> inst.opcode ]

\* One iteration of the loop of STFMorpher::process, on the instruction at
\* it_: the object after it, whether a fatal error ended the run, and the
\* type of the morph applied (NUM_TYPES when none was).
process(self) ==
  LET inst  == MorphInst(self.reader_, self.it_)
      rs    == updateInitialRegState_(self.reg_state_, inst)
      found == Matches(self, inst)
      t     == MorphChoice(found)
      id    == getMorphIndex_(t, inst)
  IN  IF Cardinality(found) > 1 /\ ~ self.allow_collisions_
        THEN [ self |-> self, failed |-> TRUE, applied |-> NUM_TYPES ]
      ELSE IF found = {}
        THEN [ self |-> [ self EXCEPT !.writer_ = Append(@, PassThrough(inst)),
                                      !.reg_state_ = updateFinalRegState_(rs, inst),
                                      !.it_ = @ + 1 ],
               failed |-> FALSE, applied |-> NUM_TYPES ]
      ELSE
        LET w == WriteOps(self.morphs_[t][id].opcodes_, rs, self.writer_, 1)
        IN  [ self |-> [ self EXCEPT !.morphs_[t][id].opcodes_ = w.opcodes_,
                                     !.writer_ = w.writer_,
                                     !.reg_state_ = updateFinalRegState_(rs, inst),
                                     !.it_ = @ + 1 ],
              failed |-> FALSE, applied |-> t ]

\* The loop test of process: the reader is at its end or past end_inst_.
AtEnd(self) ==
  \/ self.it_ > Len(self.reader_)
  \/ self.end_inst_ # 0 /\ self.it_ > self.end_inst_

\* TRUE when some instruction the run would read is matched by an STFID
\* morph and by a PC morph.
CollisionAhead(self) ==
  \E i \in self.it_..Len(self.reader_) :
    /\ self.end_inst_ = 0 \/ i <= self.end_inst_
    /\ Cardinality(Matches(self, MorphInst(self.reader_, i))) > 1

\* The state of stf_morph when another tool runs, and before its
\* constructor ran.
NoMorpher == STFMorpher([ C |-> FALSE, i |-> <<>>, a |-> <<>> ], <<>>, <<>>, 0, 0)

NoMorph ==
  [ parser |-> [ C |-> FALSE, i |-> <<>>, a |-> <<>>, start_inst |-> 0,
                 end_inst |-> 0 ],
    trace |-> <<>>, output |-> <<>>, collision_check |-> "hit", run |-> 1,
    stage |-> "off", self |-> NoMorpher, origin |-> <<>>, hits |-> <<>>,
    first |-> [ stage |-> "off", output |-> <<>> ] ]

\* ---------------------------------------------------------------- actions
\* The IMemData the history-ring specification starts from: the entry of a
\* load (created from address 0 or 8, its addresses then moving in the
\* direction sign) or of a branch (created taken, or created before it was
\* seen taken), with the values pushed into its ring so far.
LHists ==
  { [ kind |-> "loadstore",
      d |-> IMemData(FALSE, 8195, 0, FALSE, FALSE, FALSE, a),
      strides |-> <<>>, bits |-> <<>>, sign |-> sg ] :
      a \in { 0, 8 }, sg \in { 1, -1 } }
  \cup
  { [ kind |-> "branch",
      d |-> IMemData(FALSE, 99, 0, FALSE, b, b, 0),
      strides |-> <<>>, bits |-> IF b THEN << b >> ELSE <<>>, sign |-> 1 ] :
      b \in BOOLEAN }

\* IMemMapVec::IMemMapVec, with the configuration parsed by the tool.
InitProfiler ==
  /\ config \in Configs
  /\ imem_mapvec_ = << EmptyMap >>
  /\ itv_ = 1
  /\ inst_count_ = 0
  /\ max_count_ = 0
  /\ max_warmup_ = 0
  /\ max_run_length_ = 0
  /\ cerr = [ warn |-> 0, error |-> 0, empty |-> 0 ]
  /\ consumed = 0
  /\ calls = 0
  /\ path = "none"
  /\ mismatches = 0
  /\ table_birth = << 1 >>
  /\ print_config = [ sort_output |-> FALSE, is_stdout |-> FALSE ]
  /\ os = <<>>
  /\ sorted_map = <<>>
  /\ sorted_os = <<>>
  /\ assert_failed = FALSE

Init ==
  /\ InitProfiler
  /\ pc = "process"
  /\ lhist \in { h \in LHists : h.kind = "loadstore" /\ h.sign = 1
                                 /\ h.d.last_address_ = 8 }
  /\ dump = NoDump
  /\ morph = NoMorph

\* TRUE when the table the profiler looks into first holds another opcode
\* at the PC of inst.
Mismatching(inst) ==
  /\ inst.pc \in DOMAIN imem_mapvec_[itv_]
  /\ imem_mapvec_[itv_][inst.pc].opcode_ # inst.opcode

\* The vector v without its element i.
RemoveAt(v, i) == SubSeq(v, 1, i - 1) \o SubSeq(v, i + 1, Len(v))

\* The ranks of creation of the tables of the vector new, which is the
\* vector imem_mapvec_ or that vector with one table added.
Births(new) ==
  IF Len(new) = Len(imem_mapvec_) THEN table_birth
  ELSE LET i == CHOOSE j \in 1..Len(new) : RemoveAt(new, j) = imem_mapvec_
       IN  SubSeq(table_birth, 1, i - 1) \o << Len(new) >>
             \o SubSeq(table_birth, i, Len(table_birth))

\* The reader yields the event inst and the loop body of processTrace_ runs.
ProcessInstOf(inst) ==
  /\ pc = "process"
  /\ consumed < TraceLen[config.trace_filename]
  /\ LET r == LoopBody(Self, config, inst)
     IN  /\ imem_mapvec_' = r.imem_mapvec_
         /\ itv_' = r.itv_
         /\ inst_count_' = r.inst_count_
         /\ max_count_' = r.max_count_
         /\ max_warmup_' = r.max_warmup_
         /\ max_run_length_' = r.max_run_length_
         /\ cerr' = [ cerr EXCEPT !.warn = r.warn, !.error = r.error ]
         /\ calls' = r.calls
         /\ path' = r.path
         /\ pc' = IF r.brk THEN "done" ELSE "process"
         /\ table_birth' = Births(r.imem_mapvec_)
  /\ mismatches' = IF Admitted(config, inst) /\ Mismatching(inst)
                     THEN mismatches + 1 ELSE mismatches
  /\ consumed' = consumed + 1
  /\ UNCHANGED << config, report, lhist, tools >>

ProcessInst == \E inst \in Insts[config.trace_filename] : ProcessInstOf(inst)

\* it == stf_reader.end(): the loop of processTrace_ ends.
EndOfTrace ==
  /\ pc = "process"
  /\ pc' = "done"
  /\ UNCHANGED << config, profiler, cerr, report, lhist, tools >>

\* The tool calls print(config) after processTrace(config).
PrintReport ==
  /\ pc = "done"
  /\ \E pcfg \in PrintConfigs :
       LET r == print(Self, pcfg)
       IN  /\ print_config' = pcfg
           /\ os' = r.os
           /\ sorted_map' = r.sorted_map
           /\ sorted_os' = r.sorted_os
           /\ cerr' = [ cerr EXCEPT !.empty = r.empty ]
           /\ assert_failed' = r.assert_failed
  /\ pc' = "printed"
  /\ UNCHANGED << config, profiler, lhist, tools >>

Next == ProcessInst \/ EndOfTrace \/ PrintReport

Spec == Init /\ [][Next]_vars

\* ------------------------------------------- the history rings on their own
\* nextStride and nextBranchHistory applied over and over to one IMemData.
\* The n-th load/store execution moves the address by n bytes in the
\* direction lhist.sign; every third branch execution is taken.
InitRing ==
  /\ InitProfiler
  /\ config.trace_filename = "reload.stf"
  /\ ~ config.java_trace
  /\ config.keep_count = U64Max
  /\ config.warmup_count = 0
  /\ pc = "ring"
  /\ lhist \in LHists
  /\ dump = NoDump
  /\ morph = NoMorph

\* The stride the n-th call of nextStride has to record.
RingStride(h) == h.sign * (Len(h.strides) + 1)

PushStride ==
  /\ pc = "ring"
  /\ lhist.kind = "loadstore"
  /\ Len(lhist.strides) < MaxPush
  /\ lhist' = [ lhist EXCEPT
                  !.d = nextStride(@, (@.last_address_ + RingStride(lhist)) % Word),
                  !.strides = Append(@, RingStride(lhist)) ]
  /\ UNCHANGED << config, profiler, cerr, pc, report, tools >>

PushBranch ==
  /\ pc = "ring"
  /\ lhist.kind = "branch"
  /\ Len(lhist.bits) < MaxPush
  /\ LET taken == (Len(lhist.bits) % 3 = 0)
     IN  lhist' = [ lhist EXCEPT !.d = nextBranchHistory(@, taken),
                                 !.bits = Append(@, taken) ]
  /\ UNCHANGED << config, profiler, cerr, pc, report, tools >>

NextRing == PushStride \/ PushBranch

SpecRing == InitRing /\ [][NextRing]_vars

\* ------------------------------------------------------- stf_dump on its own
\* main of stf_dump: parseCommandLine, then processTrace_ on a trace of up
\* to MaxDumpLen instructions, indexed from 1.
InitDump ==
  /\ InitProfiler
  /\ config.trace_filename = "reload.stf"
  /\ ~ config.java_trace
  /\ config.keep_count = U64Max
  /\ config.warmup_count = 0
  /\ pc = "dump"
  /\ lhist \in { h \in LHists : h.kind = "loadstore" /\ h.sign = 1
                                 /\ h.d.last_address_ = 8 }
  /\ \E s, e \in 0..MaxDumpInst :
       dump = [ NoDump EXCEPT !.start_inst = s, !.end_inst = e, !.stage = "parse" ]
  /\ morph = NoMorph

ParseCommandLine ==
  /\ dump.stage = "parse"
  /\ dump' = [ dump EXCEPT !.stage = parseCommandLine(dump) ]
  /\ UNCHANGED << config, profiler, cerr, pc, report, lhist, morph >>

\* processTrace_ opens the trace and positions the reader.
OpenTrace ==
  /\ dump.stage = "open"
  /\ \E n \in 0..MaxDumpLen :
       dump' = [ dump EXCEPT !.stage = "dump", !.opened = TRUE, !.len = n,
                             !.next = DumpSkip(dump) + 1 ]
  /\ UNCHANGED << config, profiler, cerr, pc, report, lhist, morph >>

\* One iteration of the loop of processTrace_ of stf_dump.
DumpInst ==
  /\ dump.stage = "dump"
  /\ dump.next <= dump.len
  /\ dump' = [ dump EXCEPT !.dumped = Append(@, dump.next),
                           !.next = @ + 1,
                           !.stage = IF DumpBreak(dump, dump.next)
                                       THEN "done" ELSE "dump" ]
  /\ UNCHANGED << config, profiler, cerr, pc, report, lhist, morph >>

\* it == stf_reader.end() in processTrace_ of stf_dump.
DumpEndOfTrace ==
  /\ dump.stage = "dump"
  /\ dump.next > dump.len
  /\ dump' = [ dump EXCEPT !.stage = "done" ]
  /\ UNCHANGED << config, profiler, cerr, pc, report, lhist, morph >>

NextDump == ParseCommandLine \/ OpenTrace \/ DumpInst \/ DumpEndOfTrace

SpecDump == InitDump /\ [][NextDump]_vars

\* ------------------------------------------------------ stf_morph on its own
\* stf_morph run twice on the same command line and the same input trace,
\* the second run finding the output file the first one left.  The field
\* collision_check tells when a collision that is not allowed is detected:
\* by the constructor, or when process reaches the instruction.
InitMorph ==
  /\ InitProfiler
  /\ config.trace_filename = "reload.stf"
  /\ ~ config.java_trace
  /\ config.keep_count = U64Max
  /\ config.warmup_count = 0
  /\ pc = "morph"
  /\ lhist \in { h \in LHists : h.kind = "loadstore" /\ h.sign = 1
                                 /\ h.d.last_address_ = 8 }
  /\ dump = NoDump
  /\ \E p \in MorphParsers, t \in MorphTraces, c \in { "setup", "hit" } :
       morph = [ NoMorph EXCEPT !.parser = p, !.trace = t,
                                !.collision_check = c, !.stage = "construct" ]

\* The rules of morphs_, as pairs << morph type, identifier >>.
Rules(self) ==
  UNION { { << t, id >> : id \in DOMAIN self.morphs_[t] } : t \in MorphTypes }

\* main constructs the STFMorpher.
ConstructMorpher ==
  /\ morph.stage = "construct"
  /\ LET self == STFMorpher(morph.parser, morph.trace, morph.output,
                            morph.parser.start_inst, morph.parser.end_inst)
     IN  morph' = [ morph EXCEPT
                      !.self = self,
                      !.origin = <<>>,
                      !.hits = [ r \in Rules(self) |-> 0 ],
                      !.stage = IF /\ morph.collision_check = "setup"
                                   /\ ~ self.allow_collisions_
                                   /\ CollisionAhead(self)
                                  THEN "failed" ELSE "process" ]
  /\ UNCHANGED << config, profiler, cerr, pc, report, lhist, dump >>

\* One iteration of the loop of process.
ProcessMorph ==
  /\ morph.stage = "process"
  /\ ~ AtEnd(morph.self)
  /\ LET r    == process(morph.self)
         inst == MorphInst(morph.self.reader_, morph.self.it_)
         rule == << r.applied, getMorphIndex_(r.applied, inst) >>
         n    == Len(r.self.writer_) - Len(morph.self.writer_)
     IN  morph' =
           IF r.failed THEN [ morph EXCEPT !.stage = "failed" ]
           ELSE IF r.applied = NUM_TYPES
             THEN [ morph EXCEPT !.self = r.self, !.origin = Append(@, <<>>) ]
           ELSE [ morph EXCEPT
                    !.self = r.self,
                    !.hits[rule] = @ + 1,
                    !.origin = @ \o [ j \in 1..n |->
                                        << rule[1], rule[2], morph.hits[rule] + 1, j >> ] ]
  /\ UNCHANGED << config, profiler, cerr, pc, report, lhist, dump >>

\* The loop of process ends.
MorphEndOfTrace ==
  /\ morph.stage = "process"
  /\ AtEnd(morph.self)
  /\ morph' = [ morph EXCEPT !.stage = "done" ]
  /\ UNCHANGED << config, profiler, cerr, pc, report, lhist, dump >>

\* stf_morph is started again with the same command line.
RunAgain ==
  /\ morph.stage \in { "done", "failed" }
  /\ morph.run = 1
  /\ morph' = [ morph EXCEPT
                  !.first = [ stage |-> morph.stage, output |-> morph.self.writer_ ],
                  !.output = morph.self.writer_,
                  !.run = 2,
                  !.stage = "construct" ]
  /\ UNCHANGED << config, profiler, cerr, pc, report, lhist, dump >>

NextMorph == ConstructMorpher \/ ProcessMorph \/ MorphEndOfTrace \/ RunAgain

SpecMorph == InitMorph /\ [][NextMorph]_vars

\* ------------------------------------------------------------- the claims
\* The entries of the tables of mapvec, as pairs << table, PC >>.
Entries(mapvec) ==
  UNION { { << t, k >> : k \in DOMAIN mapvec[t] } : t \in 1..Len(mapvec) }

\* The sum of field fld over the entries refs of mapvec.
RECURSIVE SumField(_, _, _)
SumField(mapvec, refs, fld) ==
  IF refs = {} THEN 0
  ELSE LET r == CHOOSE x \in refs : TRUE
       IN  mapvec[r[1]][r[2]][fld] + SumField(mapvec, refs \ {r}, fld)

SumCounts == SumField(imem_mapvec_, Entries(imem_mapvec_), "count_")

\* C1: after any sequence of N admitted events the sum of getCount() over
\* every entry of every table equals N, also when an event's opcode differs
\* from the opcode stored at its PC.
C1_SumOfCountsIsAdmitted == SumCounts = calls

\* C2: with sort_output the cumulative count after the last block of the
\* frequency-ranked report equals inst_count_, so the closing stf_assert
\* never fails on tables the profiler built.
C2_CumulativeCountIsInstCount ==
  /\ ~ assert_failed
  /\ (pc = "printed" /\ print_config.sort_output /\ sorted_os # <<>>)
       => sorted_os[Len(sorted_os)].cumulative = inst_count_

\* The index in the vector of the table whose rank of creation is b.
TableOfBirth(births, b) == CHOOSE i \in 1..Len(births) : births[i] = b

\* The entry that the entry of table t at key k of imem_mapvec_' was before
\* the step; an entry made by the step was nothing, with all counts 0.
Before(t, k) ==
  LET b == table_birth'[t]
      o == IF b \in { table_birth[i] : i \in 1..Len(table_birth) }
             THEN TableOfBirth(table_birth, b) ELSE 0
  IN  IF o # 0 /\ k \in DOMAIN imem_mapvec_[o]
        THEN imem_mapvec_[o][k]
        ELSE [ warmup_ |-> 0, runlength_ |-> 0, count_ |-> 0 ]

\* C3: one event raises at most one of the warm-up count and the run-length
\* count, of one entry, and by exactly one: on creation and on a match.
C3_WarmupXorRunLength ==
  [][ LET refs == Entries(imem_mapvec_')
          dw(r) == imem_mapvec_'[r[1]][r[2]].warmup_ - Before(r[1], r[2]).warmup_
          dr(r) == imem_mapvec_'[r[1]][r[2]].runlength_ - Before(r[1], r[2]).runlength_
      IN  /\ \A r \in refs : dw(r) \in {0, 1} /\ dr(r) \in {0, 1}
          /\ Cardinality({ r \in refs : dw(r) = 1 })
               + Cardinality({ r \in refs : dr(r) = 1 }) <= 1 ]_vars

C3_Witness ==
  \E r \in Entries(imem_mapvec_) :
    LET d == imem_mapvec_[r[1]][r[2]]
    IN  d.warmup_ >= 1 /\ d.runlength_ >= 1 /\ d.count_ > d.warmup_ + d.runlength_

\* C4: an admitted event whose PC holds an entry with another opcode leaves
\* that entry as it was, field by field, in whichever table it is.
C4_MismatchLeavesEntry ==
  [][ \A inst \in Insts[config.trace_filename] :
        (ProcessInstOf(inst) /\ Admitted(config, inst)) =>
          \A t \in 1..Len(imem_mapvec_) :
            (/\ inst.pc \in DOMAIN imem_mapvec_[t]
             /\ imem_mapvec_[t][inst.pc].opcode_ # inst.opcode) =>
              LET n == TableOfBirth(table_birth', table_birth[t])
              IN  /\ inst.pc \in DOMAIN imem_mapvec_'[n]
                  /\ imem_mapvec_'[n][inst.pc] = imem_mapvec_[t][inst.pc] ]_vars

C4_Witness ==
  /\ path = "mismatch"
  /\ \E k \in DOMAIN imem_mapvec_[1] :
       imem_mapvec_[1][k].count_ >= 2 /\ imem_mapvec_[1][k].recent_strides_idx_ >= 1

\* C5: every admitted event whose opcode differs from the opcode stored at
\* its PC emits exactly one warning, no other event emits one, in the
\* regular and in the Java-trace variant.
C5_OneWarningPerMismatch == cerr.warn = mismatches

\* C5 as amended: so it is in the regular variant; the Java-trace variant
\* emits no mismatch warning at all.
C5_OneWarningPerMismatchIMem ==
  IF config.java_trace THEN cerr.warn = 0 ELSE cerr.warn = mismatches

C5_Witness ==
  /\ ~ config.java_trace
  /\ cerr.warn = 2
  /\ calls = 4
  /\ Cardinality(DOMAIN imem_mapvec_[1]) = 1

\* C6: the history buffers are rings of MAX_LHIST_ = 50 slots: the cursors
\* stay in 0..49, the buffers keep 50 slots, the n-th push lands in slot
\* (n - 1) mod 50, so that the buffer holds the last 50 values pushed.
C6_HistoryRings ==
  LET d == lhist.d
      ns == Len(lhist.strides)
      nb == Len(lhist.bits)
  IN  /\ d.recent_strides_idx_ \in 0..49
      /\ d.branch_lhr_idx_ \in 0..49
      /\ DOMAIN d.recent_strides_ = 1..50
      /\ DOMAIN d.branch_lhr_ = 1..50
      /\ d.recent_strides_idx_ = ns % 50
      /\ d.branch_lhr_idx_ = nb % 50
      /\ \A j \in 1..ns :
           j > ns - 50 => d.recent_strides_[((j - 1) % 50) + 1] = lhist.strides[j]
      /\ \A j \in 1..nb :
           j > nb - 50 => d.branch_lhr_[((j - 1) % 50) + 1] = lhist.bits[j]

C6_Witness ==
  /\ Len(lhist.strides) = 53
  /\ \A i, j \in 1..53 : i # j => lhist.strides[i] # lhist.strides[j]
  /\ lhist.d.recent_strides_[3] = lhist.strides[53]
  /\ lhist.d.recent_strides_[4] = lhist.strides[4]

\* C7: inst_count_ is the number of count_impl calls made so far, whichever
\* path they took, and the loop goes on only while the last call left
\* inst_count_ below keep_count.
C7_InstCountIsCalls ==
  /\ inst_count_ = calls
  /\ inst_count_ = SumCounts + cerr.warn
  /\ pc = "process" => (calls = 0 \/ inst_count_ < config.keep_count)

C7_Witness ==
  /\ pc = "done"
  /\ config.keep_count = 3
  /\ inst_count_ = 3
  /\ cerr.warn = 1
  /\ consumed < TraceLen[config.trace_filename]

\* C8: a fault, or an event of a thread the nonzero filters exclude, is
\* discarded: no table, counter or maximum changes and the loop goes on.
C8_DiscardedEventChangesNothing ==
  [][ \A inst \in Insts[config.trace_filename] :
        (ProcessInstOf(inst) /\ (inst.isFault
                                 \/ (config.g_hw_tid # 0 /\ inst.hwtid # config.g_hw_tid)
                                 \/ (config.g_pid # 0 /\ inst.pid # config.g_pid)
                                 \/ (config.g_tid # 0 /\ inst.tid # config.g_tid))) =>
          /\ UNCHANGED << imem_mapvec_, itv_, inst_count_, max_count_,
                          max_warmup_, max_run_length_, calls, pc >>
          /\ cerr'.warn = cerr.warn ]_vars

C8_Witness ==
  /\ path = "discard"
  /\ config.g_pid # 0
  /\ consumed = 4
  /\ inst_count_ = 2

\* The positions of the lines of the given kind in the report o.
LinesOf(o, kind) == { i \in 1..Len(o) : o[i].kind = kind }

\* Within each table the entries are printed in strictly ascending PC order,
\* under the header of their table, and every table is printed.
AscendingWithinTables ==
  /\ \A i, j \in LinesOf(os, "inst") :
       (i < j /\ os[i].table = os[j].table) => os[i].pc < os[j].pc
  /\ \A i \in LinesOf(os, "inst") :
       LET h == CHOOSE m \in LinesOf(os, "map") :
                  m < i /\ \A m2 \in LinesOf(os, "map") : m2 < i => m2 <= m
       IN  os[h].table = os[i].table
  /\ { os[m].table : m \in LinesOf(os, "map") } = 1..Len(imem_mapvec_)

\* C9: the linear report emits the tables from the most recently created to
\* the first created, each with its entries in strictly ascending PC order.
C9_NewestTableFirst ==
  pc = "printed" =>
    /\ \A i, j \in LinesOf(os, "map") :
         i < j => table_birth[os[i].table] > table_birth[os[j].table]
    /\ AscendingWithinTables

\* C9 as amended: the tables are emitted from the first created to the most
\* recently created, each with its entries in strictly ascending PC order.
C9_OldestTableFirst ==
  pc = "printed" =>
    /\ \A i, j \in LinesOf(os, "map") :
         i < j => table_birth[os[i].table] < table_birth[os[j].table]
    /\ AscendingWithinTables

C9_Witness ==
  /\ pc = "printed"
  /\ Len(imem_mapvec_) = 3
  /\ \E t \in 1..3 : Cardinality(DOMAIN imem_mapvec_[t]) = 2
  /\ Cardinality(LinesOf(os, "inst")) = 4

\* The entry printed before line i of the report, 0 when i is the first.
PrevInst(i) ==
  LET before == { j \in LinesOf(os, "inst") : j < i }
  IN  IF before = {} THEN 0 ELSE CHOOSE j \in before : \A k \in before : k <= j

\* TRUE when entry line i is not the first printed and its PC is not the PC
\* of the entry printed before it plus that entry's size, 2 or 4.
NotContiguous(i) ==
  LET j == PrevInst(i)
  IN  /\ j # 0
      /\ os[j].pc + (IF imem_mapvec_[os[j].table][os[j].pc].is_16bit_ THEN 2 ELSE 4)
           # os[i].pc

GapMarkerBefore(i) == i > 1 /\ os[i - 1].kind = "gap"

\* C10: a gap marker is printed before an entry exactly when the entry is
\* not the first printed and is not contiguous with the one before it, in
\* every configuration of the report.
C10_GapMarkers ==
  pc = "printed" =>
    /\ \A i \in LinesOf(os, "inst") : GapMarkerBefore(i) <=> NotContiguous(i)
    /\ \A i \in LinesOf(os, "gap") : i < Len(os) /\ os[i + 1].kind = "inst"

\* C10 as amended: so it is when sort_output is off; with sort_output on no
\* gap marker is printed.  With sort_output off the entries at 0x100, 0x104,
\* 0x200, 0x204, 0x300 (4-byte) get two markers, before 0x200 and 0x300.
C10_GapMarkersUnlessSorted ==
  pc = "printed" =>
    /\ \A i \in LinesOf(os, "inst") :
         GapMarkerBefore(i) <=> (~ print_config.sort_output /\ NotContiguous(i))
    /\ \A i \in LinesOf(os, "gap") : i < Len(os) /\ os[i + 1].kind = "inst"
    /\ (/\ ~ print_config.sort_output
        /\ Len(imem_mapvec_) = 1
        /\ DOMAIN imem_mapvec_[1] = {256, 260, 512, 516, 768}
        /\ \A k \in DOMAIN imem_mapvec_[1] : ~ imem_mapvec_[1][k].is_16bit_)
         => /\ [ i \in 1..Len(os) |-> os[i].kind ]
                 = << "map", "inst", "inst", "gap", "inst", "inst", "gap", "inst" >>
            /\ os[5].pc = 512
            /\ os[8].pc = 768

C10_Witness ==
  /\ pc = "printed"
  /\ ~ print_config.sort_output
  /\ Len(imem_mapvec_) = 1
  /\ DOMAIN imem_mapvec_[1] = {256, 260, 512, 516, 768}
  /\ Cardinality(LinesOf(os, "gap")) = 2

\* C11: the frequency-ranked report emits its blocks in non-increasing order
\* of aggregate block count, and blocks of equal aggregate count in
\* ascending order of their first-instruction PC.
C11_BlocksRanked ==
  pc = "printed" =>
    \A i, j \in LinesOf(sorted_os, "block") :
      i < j => \/ sorted_os[i].count > sorted_os[j].count
               \/ /\ sorted_os[i].count = sorted_os[j].count
                  /\ sorted_os[i].pc <= sorted_os[j].pc

C11_Witness ==
  /\ pc = "printed"
  /\ print_config.sort_output
  /\ \E i, j, k \in LinesOf(sorted_os, "block") :
       /\ i < j /\ j < k
       /\ sorted_os[i].count > sorted_os[j].count
       /\ sorted_os[j].count = sorted_os[k].count
       /\ sorted_os[j].pc < sorted_os[k].pc

\* C12: when sort_output is on and no event was admitted, so that no entry
\* was collected, print emits the 'generated imem was empty' warning once
\* and returns: nothing of the frequency-ranked report is written, not even
\* the totals that precede the closing assertion, which is therefore not
\* reached, while the address-ordered report, here the header of the one
\* empty table, has been written.
C12_EmptySortedSkipped ==
  (pc = "printed" /\ print_config.sort_output /\ calls = 0) =>
    /\ Entries(imem_mapvec_) = {}
    /\ cerr.empty = 1
    /\ sorted_os = <<>>
    /\ ~ assert_failed
    /\ os = << [ kind |-> "map", map_num |-> 1, table |-> 1 ] >>

C12_Witness ==
  /\ pc = "printed"
  /\ print_config.sort_output
  /\ calls = 0
  /\ consumed = 2
  /\ cerr.empty = 1

\* C18: an event whose validity flag is false gets one diagnostic on cerr
\* and is then treated as any other event: when it passes the thread
\* filters and is not a fault, count_impl runs on it and inst_count_ grows
\* by one, the tables and maxima end as they would for the same event with
\* the flag true, and the loop goes on unless the cap was reached.
C18_InvalidEventCounted ==
  [][ \A inst \in Insts[config.trace_filename] :
        (ProcessInstOf(inst) /\ ~ inst.valid) =>
          /\ cerr'.error = cerr.error + 1
          /\ Admitted(config, inst) =>
               /\ inst_count_' = inst_count_ + 1
               /\ calls' = calls + 1
               /\ path' \in { "create", "match", "mismatch" }
               /\ pc' = IF inst_count_' >= config.keep_count
                          THEN "done" ELSE "process"
               /\ LET v == count_impl(Self, config, [ inst EXCEPT !.valid = TRUE ])
                  IN  /\ imem_mapvec_' = v.imem_mapvec_
                      /\ itv_' = v.itv_
                      /\ max_count_' = v.max_count_
                      /\ max_warmup_' = v.max_warmup_
                      /\ max_run_length_' = v.max_run_length_
                      /\ cerr'.warn = v.warn ]_vars

C18_Witness ==
  /\ pc = "process"
  /\ cerr.error = 1
  /\ consumed = 2
  /\ calls = 2
  /\ path = "match"

\* C19: the number of events processTrace admits, which is the number of
\* count_impl calls and the value of inst_count_, never exceeds keep_count,
\* whatever keep_count is, 0 and 1 included, and however long the source.
C19_AdmittedAtMostKeepCount ==
  /\ calls = inst_count_
  /\ calls <= config.keep_count

\* The admitted events that lie past the warm-up window and inside the
\* measurement window: the n-th admitted event, n counted from 0, finds
\* inst_count_ = n.
InWindow ==
  { n \in 0..(calls - 1) : n >= config.warmup_count /\ n < config.runlength_count }

SumRunLength == SumField(imem_mapvec_, Entries(imem_mapvec_), "runlength_")

\* C20: run-length counts are raised only by admitted events that find
\* warmup_count <= inst_count_ < runlength_count, when they create an entry
\* as when they match one, so the sum of the run-length counts of all
\* entries never exceeds the number of such events.
C20_RunLengthInsideWindow == SumRunLength <= Cardinality(InWindow)

\* C17: stf_dump rejects a range whose end bound is nonzero and smaller
\* than its start bound: the stf_assert of parseCommandLine throws, the
\* trace is never opened and no instruction is dumped; a range with end
\* bound 0 or with end >= start is never rejected.
C17_RangeCheck ==
  dump.stage # "parse" =>
    IF dump.end_inst # 0 /\ dump.end_inst < dump.start_inst
      THEN dump.stage = "aborted" /\ ~ dump.opened /\ dump.dumped = <<>>
      ELSE dump.stage # "aborted"

C17_Witness ==
  /\ dump.stage = "aborted"
  /\ dump.end_inst = 1
  /\ dump.start_inst = 2

\* A range with end bound 0 and a nonzero start bound was accepted and its
\* trace dumped to the end.
C17_WitnessUnbounded ==
  /\ dump.stage = "done"
  /\ dump.end_inst = 0
  /\ dump.start_inst = 3
  /\ dump.dumped = << 3, 4 >>

\* TRUE when instruction i of the trace the morpher reads is addressed by
\* an STFID morph through its index and by a PC morph through its PC.
Colliding(self, i) ==
  /\ i \in 1..Len(self.reader_)
  /\ i \in DOMAIN self.morphs_[STFID]
  /\ self.reader_[i] \in DOMAIN self.morphs_[PC]

\* The records the step from morph to morph' appended to the output.
Written ==
  SubSeq(morph'.self.writer_, Len(morph.self.writer_) + 1, Len(morph'.self.writer_))

\* C13: with collisions allowed (flag C), an instruction matched by an
\* STFID morph and by a PC morph is replaced by exactly the ops of the STFID
\* morph, in queue order and with their current addresses, and the PC morph
\* is left as it was: none of its ops is written and none of its addresses
\* moves, so the next occurrence of that PC that does not collide finds the
\* addresses the PC morph had before.
C13_StfidMorphPrecedes ==
  [][ (/\ ProcessMorph
       /\ morph.parser.C
       /\ Colliding(morph.self, morph.self.it_)) =>
        LET ops == morph.self.morphs_[STFID][morph.self.it_].opcodes_
        IN  /\ morph'.stage = "process"
            /\ Len(Written) = Len(ops)
            /\ \A j \in 1..Len(ops) :
                 /\ Written[j].kind = "morph"
                 /\ Written[j].opcode = ops[j].opcode_
                 /\ Written[j].mem =
                      IF ops[j].ls_access_type_ = "INVALID" THEN <<>>
                      ELSE << [ address |-> ops[j].ls_address_,
                                size    |-> ops[j].ls_size_,
                                type    |-> ops[j].ls_access_type_ ] >>
            /\ morph'.self.morphs_[PC] = morph.self.morphs_[PC]
            /\ \A r \in DOMAIN morph.hits :
                 r[1] = PC => morph'.hits[r] = morph.hits[r] ]_vars

\* Instruction 2, at PC 0x10, collided and got the two ops of the STFID
\* morph; instructions 1 and 3, at the same PC, got the op of the PC morph
\* at its first and at its second address.
C13_Witness ==
  /\ morph.stage = "done"
  /\ morph.parser.C
  /\ Len(morph.self.reader_) = 3
  /\ Colliding(morph.self, 2)
  /\ morph.hits[<< STFID, 2 >>] = 1
  /\ morph.hits[<< PC, 16 >>] = 2
  /\ [ n \in 1..4 |-> morph.self.writer_[n].opcode ] = << 8195, 19, 19, 8195 >>
  /\ morph.self.writer_[4].mem[1].address = 0

\* C14: with collisions not allowed (no flag C), when an STFID morph and a
\* PC morph match the same instruction of the run the run fails, in the
\* constructor or when process reaches that instruction: the run never
\* moves past the instruction nor ends normally, and the step that reaches
\* it writes nothing.
C14_CollisionIsFatal ==
  /\ [](~ morph.parser.C =>
          \A i \in 1..Len(morph.self.reader_) :
            (/\ Colliding(morph.self, i)
             /\ i >= morph.parser.start_inst
             /\ morph.parser.end_inst = 0 \/ i <= morph.parser.end_inst) =>
               /\ morph.self.it_ <= i
               /\ morph.stage # "done"
               /\ morph.first.stage # "done")
  /\ [][ (/\ ProcessMorph
          /\ ~ morph.parser.C
          /\ Colliding(morph.self, morph.self.it_)) =>
           /\ morph'.stage = "failed"
           /\ Written = <<>>
           /\ morph'.self.morphs_ = morph.self.morphs_ ]_vars

\* Instruction 1 was replaced by the op of the PC morph and the run failed
\* on instruction 2, which collides.
C14_Witness ==
  /\ morph.stage = "failed"
  /\ ~ morph.parser.C
  /\ morph.collision_check = "hit"
  /\ Colliding(morph.self, 2)
  /\ morph.self.it_ = 2
  /\ Len(morph.self.writer_) = 1
  /\ morph.hits[<< PC, 16 >>] = 1

\* The constructor found the collision: nothing was read or written.
C14_WitnessSetup ==
  /\ morph.stage = "failed"
  /\ morph.collision_check = "setup"
  /\ morph.run = 1
  /\ Colliding(morph.self, 2)
  /\ morph.self.writer_ = <<>>

\* The replacement the command line declares as op j of the morph of type t
\* with identifier id.
Declared(t, id, j) ==
  LET args == IF t = STFID THEN morph.parser.i ELSE morph.parser.a
      n == CHOOSE m \in 1..Len(args) : convertMorphId_(t, args[m].id_str) = id
  IN  args[n].ops[j]

C21_FirstAccessCaptured ==
  [][ \A inst \in Insts[config.trace_filename] :
        (/\ ProcessInstOf(inst)
         /\ ~ config.java_trace
         /\ Admitted(config, inst)
         /\ inst.isLoad \/ inst.isStore
         /\ path' = "create") =>
          LET accesses == IF inst.isLoad THEN inst.reads ELSE inst.writes
          IN  Len(accesses) >= 1 =>
                imem_mapvec_'[itv_'][inst.pc].last_address_ = accesses[1] ]_vars

\* C22: every entry the regular variant creates from a load or a store is
\* flagged load/store, whatever the address captured, address 0 and an
\* empty memory-access list included.
C22_LoadStoreFlagged ==
  ~ config.java_trace =>
    \A e \in Entries(imem_mapvec_) :
      LET d == imem_mapvec_[e[1]][e[2]]
      IN  (Decoded[d.opcode_].isLoad \/ Decoded[d.opcode_].isStore) => d.is_loadstore_

\* C23: every execution that matches an entry of the regular variant
\* already flagged as branch pushes one bit into the circular history, the
\* bit of that execution's outcome (0 when not taken), and advances the
\* cursor by one, so that the pushes are as many as the executions.
C23_EveryOutcomePushed ==
  [][ \A inst \in Insts[config.trace_filename] :
        (/\ ProcessInstOf(inst)
         /\ ~ config.java_trace
         /\ Admitted(config, inst)
         /\ path' = "match"
         /\ imem_mapvec_[itv_][inst.pc].is_branch_) =>
          LET d == imem_mapvec_[itv_][inst.pc]
              n == imem_mapvec_'[itv_'][inst.pc]
          IN  /\ n.branch_lhr_idx_ = (d.branch_lhr_idx_ + 1) % MAX_LHIST_
              /\ n.branch_lhr_[d.branch_lhr_idx_ + 1] = inst.isTakenBranch
              /\ n.branch_lhr_idx_ = n.count_ % MAX_LHIST_ ]_vars

\* TRUE when table t holds the PC of inst with the opcode of inst.
Holds(t, inst) ==
  /\ inst.pc \in DOMAIN imem_mapvec_[t]
  /\ imem_mapvec_[t][inst.pc].opcode_ = inst.opcode

\* The entries of all tables but the one at << t, key >> are as they were.
OthersUnchanged(t, key) ==
  /\ Len(imem_mapvec_') = Len(imem_mapvec_)
  /\ \A u \in 1..Len(imem_mapvec_) :
       /\ DOMAIN imem_mapvec_'[u] = DOMAIN imem_mapvec_[u]
       /\ \A k \in DOMAIN imem_mapvec_[u] :
            << u, k >> # << t, key >> => imem_mapvec_'[u][k] = imem_mapvec_[u][k]

\* C24: in the Java variant, when the active table does not hold the
\* event's PC with the event's opcode and another table does, the count of
\* that entry grows by one, with its warm-up or run-length count as the
\* windows tell, the table holding it becomes the active table, and no
\* table and no entry is created.
C24_FoundInOtherTable ==
  [][ \A inst \in Insts[config.trace_filename] :
        \A t \in 1..Len(imem_mapvec_) :
          (/\ ProcessInstOf(inst)
           /\ config.java_trace
           /\ Admitted(config, inst)
           /\ ~ Holds(itv_, inst)
           /\ Holds(t, inst)) =>
            LET d == imem_mapvec_[t][inst.pc]
                n == imem_mapvec_'[t][inst.pc]
            IN  /\ OthersUnchanged(t, inst.pc)
                /\ itv_' = t
                /\ n.count_ = d.count_ + 1
                /\ n.warmup_ = IF inst_count_ < config.warmup_count
                                 THEN d.warmup_ + 1 ELSE d.warmup_
                /\ n.runlength_ = IF /\ inst_count_ >= config.warmup_count
                                     /\ inst_count_ < config.runlength_count
                                    THEN d.runlength_ + 1 ELSE d.runlength_
                /\ n.opcode_ = d.opcode_ ]_vars

\* After lw, addi, lw at one PC: the addi opened a second table, placed in
\* front, and the second lw was found in the table behind it.
C24_Witness ==
  /\ config.java_trace
  /\ consumed = 3
  /\ calls = 3
  /\ Len(imem_mapvec_) = 2
  /\ itv_ = 2
  /\ 256 \in DOMAIN imem_mapvec_[2]
  /\ imem_mapvec_[2][256].count_ = 2

\* TRUE when every table holds the PC of inst with another opcode.
AllDiffer(inst) ==
  \A t \in 1..Len(imem_mapvec_) :
    /\ inst.pc \in DOMAIN imem_mapvec_[t]
    /\ imem_mapvec_[t][inst.pc].opcode_ # inst.opcode

\* TRUE when the step put a new entry for inst into table t, which had none
\* for its PC, and left the number of tables and all other entries alone.
InsertedInto(t, inst) ==
  /\ inst.pc \notin DOMAIN imem_mapvec_[t]
  /\ Len(imem_mapvec_') = Len(imem_mapvec_)
  /\ DOMAIN imem_mapvec_'[t] = DOMAIN imem_mapvec_[t] \cup {inst.pc}
  /\ imem_mapvec_'[t][inst.pc].count_ = 1
  /\ imem_mapvec_'[t][inst.pc].opcode_ = inst.opcode
  /\ \A u \in 1..Len(imem_mapvec_) :
       IF u = t
         THEN \A k \in DOMAIN imem_mapvec_[t] :
                imem_mapvec_'[t][k] = imem_mapvec_[t][k]
         ELSE imem_mapvec_'[u] = imem_mapvec_[u]

\* C25: in a Java trace the number of tables grows during an admitted event,
\* and then by one, exactly when every table already holds the PC of the event
\* with another opcode; the new table is put in front of the others, becomes
\* the active one and holds only the new entry, with count 1.  When an entry is
\* created while some table lacks the PC, it goes into a table that lacked it,
\* which becomes the active one, and no table is created.
C25_TableGrowth ==
  [][ \A inst \in Insts[config.trace_filename] :
        (/\ ProcessInstOf(inst)
         /\ config.java_trace
         /\ Admitted(config, inst)) =>
          /\ Len(imem_mapvec_') \in { Len(imem_mapvec_), Len(imem_mapvec_) + 1 }
          /\ Len(imem_mapvec_') = Len(imem_mapvec_) + 1 <=> AllDiffer(inst)
          /\ AllDiffer(inst) =>
               /\ imem_mapvec_' = << imem_mapvec_'[1] >> \o imem_mapvec_
               /\ itv_' = 1
               /\ DOMAIN imem_mapvec_'[1] = {inst.pc}
               /\ imem_mapvec_'[1][inst.pc].count_ = 1
               /\ imem_mapvec_'[1][inst.pc].opcode_ = inst.opcode
          /\ (~ AllDiffer(inst) /\ path' = "create") =>
               /\ itv_' \in 1..Len(imem_mapvec_)
               /\ InsertedInto(itv_', inst) ]_vars

\* Two opcodes at 0x100 made a second table in front of the first; 0x102 went
\* into the active, new table, and a second opcode at 0x102 into the older
\* table, the only one without that PC, which became the active one.
C25_Witness ==
  /\ config.java_trace
  /\ calls = 4
  /\ path = "create"
  /\ Len(imem_mapvec_) = 2
  /\ itv_ = 2
  /\ DOMAIN imem_mapvec_[1] = {256, 258}
  /\ DOMAIN imem_mapvec_[2] = {256, 258}
  /\ imem_mapvec_[1][258].opcode_ = 19
  /\ imem_mapvec_[2][258].opcode_ = 49152

\* The places of sorted_map: block i, position j.
BlockPlaces ==
  { p \in (1..Len(sorted_map)) \X (1..Cardinality(Entries(imem_mapvec_))) :
      p[2] <= Len(sorted_map[p[1]].block) }

\* The sum of the counts of the entries block[i..].
RECURSIVE BlockSum(_, _)
BlockSum(block, i) ==
  IF i > Len(block) THEN 0
  ELSE imem_mapvec_[block[i].t][block[i].pc].count_ + BlockSum(block, i + 1)

\* C26: once print has run with sort_output, the blocks of sorted_map
\* partition the entries of all tables: no block is empty or longer than the
\* number of entries, every place of a block refers to an entry, and every
\* entry stands at exactly one place.  Inside a block each PC is the previous
\* PC plus the size of the previous opcode; the key of a block carries the sum
\* of the counts of its entries and the PC of its first entry.
C26_BlocksPartitionEntries ==
  (pc = "printed" /\ print_config.sort_output) =>
    /\ \A i \in 1..Len(sorted_map) :
         LET b == sorted_map[i].block
         IN  /\ Len(b) \in 1..Cardinality(Entries(imem_mapvec_))
             /\ \A j \in 1..Len(b) : << b[j].t, b[j].pc >> \in Entries(imem_mapvec_)
             /\ \A j \in 2..Len(b) :
                  b[j].pc = (b[j - 1].pc
                             + getOpcodeSize(imem_mapvec_[b[j - 1].t][b[j - 1].pc])) % Word
             /\ sorted_map[i].key.count_ = BlockSum(b, 1)
             /\ sorted_map[i].key.pc_ = b[1].pc
    /\ \A e \in Entries(imem_mapvec_) :
         Cardinality({ p \in BlockPlaces :
                         /\ sorted_map[p[1]].block[p[2]].t = e[1]
                         /\ sorted_map[p[1]].block[p[2]].pc = e[2] }) = 1

\* A report of two blocks, one of them a 2-byte instruction followed by the
\* instruction right behind it, executed three times together.
C26_Witness ==
  /\ pc = "printed"
  /\ print_config.sort_output
  /\ Len(sorted_map) = 2
  /\ \E i \in 1..2 :
       /\ Len(sorted_map[i].block) = 2
       /\ sorted_map[i].key.count_ = 3
       /\ sorted_map[i].block[2].pc = sorted_map[i].block[1].pc + 2

\* The value of register r after the records recs were applied in order to a
\* state that held before: that of the last record for r, if there is one.
LastVal(recs, r, before) ==
  LET at == { j \in 1..Len(recs) : recs[j].reg = r }
  IN  IF at = {} THEN before
      ELSE recs[CHOOSE j \in at : \A k \in at : k <= j].val

C28_PairInOneTable ==
  config.java_trace =>
    \A t, u \in 1..Len(imem_mapvec_) :
      \A k \in DOMAIN imem_mapvec_[t] \cap DOMAIN imem_mapvec_[u] :
        imem_mapvec_[t][k].opcode_ = imem_mapvec_[u][k].opcode_ => t = u

\* Two opcodes ran at 0x100, each twice and in turn: each has its entry in
\* its own table, and the last event was found in the table that was not the
\* active one.
C28_Witness ==
  /\ config.java_trace
  /\ calls = 4
  /\ path = "match"
  /\ Len(imem_mapvec_) = 2
  /\ itv_ = 1
  /\ 256 \in DOMAIN imem_mapvec_[1] \cap DOMAIN imem_mapvec_[2]
  /\ imem_mapvec_[1][256].count_ = 2
  /\ imem_mapvec_[2][256].count_ = 2

\* TRUE when the step added one to the count of exactly one entry and left
\* the tables, their keys and the counts of all other entries as they were.
OneCountIncremented ==
  /\ Len(imem_mapvec_') = Len(imem_mapvec_)
  /\ Entries(imem_mapvec_') = Entries(imem_mapvec_)
  /\ \E e \in Entries(imem_mapvec_) :
       /\ imem_mapvec_'[e[1]][e[2]].count_ = imem_mapvec_[e[1]][e[2]].count_ + 1
       /\ \A f \in Entries(imem_mapvec_) \ {e} :
            imem_mapvec_'[f[1]][f[2]] = imem_mapvec_[f[1]][f[2]]

\* TRUE when the step created exactly one entry, with count 1, in an existing
\* table or in a new table in front of them, and left all other entries as
\* they were.
OneEntryCreated ==
  \/ /\ Len(imem_mapvec_') = Len(imem_mapvec_)
     /\ \E e \in Entries(imem_mapvec_') \ Entries(imem_mapvec_) :
          /\ Entries(imem_mapvec_') = Entries(imem_mapvec_) \cup {e}
          /\ imem_mapvec_'[e[1]][e[2]].count_ = 1
     /\ \A f \in Entries(imem_mapvec_) :
          imem_mapvec_'[f[1]][f[2]] = imem_mapvec_[f[1]][f[2]]
  \/ /\ Len(imem_mapvec_') = Len(imem_mapvec_) + 1
     /\ SubSeq(imem_mapvec_', 2, Len(imem_mapvec_')) = imem_mapvec_
     /\ \E k \in DOMAIN imem_mapvec_'[1] :
          /\ DOMAIN imem_mapvec_'[1] = {k}
          /\ imem_mapvec_'[1][k].count_ = 1

\* C29: in a Java trace every admitted event either adds one to the count of
\* exactly one existing entry or creates exactly one entry with count 1; the
\* tables are never left as they were.
C29_OneEntryPerEvent ==
  [][ \A inst \in Insts[config.trace_filename] :
        (/\ ProcessInstOf(inst)
         /\ config.java_trace
         /\ Admitted(config, inst)) =>
          /\ OneCountIncremented \/ OneEntryCreated
          /\ imem_mapvec_' # imem_mapvec_ ]_vars

\* Three events created the entries of 0x100, 0x102 and 0x104 in one table,
\* and a fourth one counted the branch at 0x104 again.
C29_Witness ==
  /\ config.java_trace
  /\ calls = 4
  /\ path = "match"
  /\ Len(imem_mapvec_) = 1
  /\ DOMAIN imem_mapvec_[1] = {256, 258, 260}
  /\ imem_mapvec_[1][260].count_ = 2

\* C30: as soon as an entry exists, max_count_ is the largest count of any
\* entry of any table.
C30_MaxCountIsLargest ==
  Entries(imem_mapvec_) # {} =>
    /\ \E e \in Entries(imem_mapvec_) : imem_mapvec_[e[1]][e[2]].count_ = max_count_
    /\ \A e \in Entries(imem_mapvec_) : imem_mapvec_[e[1]][e[2]].count_ <= max_count_

====
